---------------------------- MODULE Spec2Model ----------------------------
(***************************************************************************)
(* WhatsApp feedback collection backend (inkerrobotics/FeedbackFullStack). *)
(*                                                                         *)
(* The model follows Backend/services/webhookService.js (router and step   *)
(* handlers, detached image upload), conversationManager.js (session       *)
(* manager, reaper) and prismaService.js (session and feedback tables).    *)
(* Every awaited database call, outbound send and upload is one atomic     *)
(* step of the task that makes it; the synchronous code between two awaits *)
(* belongs to the step that precedes it.  Time is counted in hours.        *)
(***************************************************************************)
EXTENDS Integers, Sequences, FiniteSets, TLC

VARIABLES
    sessions,   \* conversationSession table: userPhone -> row or NoRow
    feedbacks,  \* feedback table: sequence of rows in creation order
    tasks,      \* one record per handler or upload slot (locals + position)
    now,        \* wall clock, hours
    events,     \* number of inbound messages dispatched so far
    failures,   \* number of injected store / send failures so far
    epoch,      \* history: per user, number of conversations begun or ended
    conv        \* history: per user, the texts accepted in the current conversation

vars == <<sessions, feedbacks, tasks, now, events, failures, epoch, conv>>

----------------------------------------------------------------------------
(* Bounds of the model *)

MaxEvents   == 4    \* inbound messages per behaviour of Spec
MaxUpload   == 5    \* inbound messages per behaviour of SpecUpload
MaxSerial   == 4    \* inbound messages per behaviour of SpecSerial
MaxTwo      == 3    \* inbound messages per behaviour of SpecTwo
MaxPayload  == 4    \* inbound messages per behaviour of SpecPayload
MaxBatch    == 2    \* messages in one webhook payload
MaxCorrupt  == 4    \* messages received in SpecCorrupt
MaxSweep    == 3    \* inbound messages per behaviour of SpecSweep
MaxFailures == 1    \* injected store / send failures per behaviour
MaxNow      == 24   \* the clock stops here
TickHours   == 12   \* granularity of the clock

(* Program constants *)

sessionTimeout == 12   \* conversationManager.js:10, in hours
hoursOld       == 12   \* conversationManager.js:174, argument of the sweep
MaxStep        == 4    \* conversationManager.js:104, Math.min(step + 1, 4)

----------------------------------------------------------------------------
(* Values *)

Users     == {"u1", "u2"}
MsgSlots  == {1, 2}
PipeSlots == {3}
Slots     == MsgSlots \cup PipeSlots

NULL  == <<"null">>          \* JS null / undefined of an optional column
EMPTY == <<>>                \* the empty string
NoRow == [exists |-> FALSE]  \* findUnique found nothing

Min2(a, b) == IF a < b THEN a ELSE b

(* Strings are sequences of one-character strings. *)
UpperChars == <<"A","B","C","D","E","F","G","H","I","J","K","L","M",
                "N","O","P","Q","R","S","T","U","V","W","X","Y","Z">>
LowerChars == <<"a","b","c","d","e","f","g","h","i","j","k","l","m",
                "n","o","p","q","r","s","t","u","v","w","x","y","z">>

ToLowerChar(c) ==
    IF \E i \in 1..26 : UpperChars[i] = c
    THEN LowerChars[CHOOSE i \in 1..26 : UpperChars[i] = c]
    ELSE c

\* String.prototype.toLowerCase
toLowerCase(s) == [i \in 1..Len(s) |-> ToLowerChar(s[i])]

\* String.prototype.trim
trim(s) ==
    LET keep == {i \in 1..Len(s) : s[i] # " "}
        lo   == CHOOSE i \in keep : \A j \in keep : i <= j
        hi   == CHOOSE i \in keep : \A j \in keep : j <= i
    IN  IF keep = {} THEN EMPTY ELSE SubSeq(s, lo, hi)

\* 'share your thoughts'
StartKeyword == <<"s","h","a","r","e"," ","y","o","u","r"," ",
                  "t","h","o","u","g","h","t","s">>

(* Message bodies used as inputs *)
B_Al      == <<"A","l">>
B_AlPad   == <<" ","A","l"," ">>
B_Blank   == <<" ">>
B_Good    == <<"o","k">>
B_Yes     == <<" ","Y","e","s">>
B_N       == <<"N">>
B_Hi      == <<"h","i">>
B_Start   == StartKeyword
B_StartUp == <<" ","S","h","a","r","e"," ","Y","O","U","R"," ",
               "t","h","o","u","g","h","t","s"," ">>

(* Inbound messages: message.type with the payload field that type carries *)
TextMsg(b)   == [type |-> "text",        body |-> b,     id |-> NULL]
ImageMsg(i)  == [type |-> "image",       body |-> EMPTY, id |-> i]
ButtonMsg(i) == [type |-> "interactive", body |-> EMPTY, id |-> i]
AudioMsg     == [type |-> "audio",       body |-> EMPTY, id |-> NULL]

NoMsg == [type |-> "none", body |-> EMPTY, id |-> NULL]

IsText(m)   == m.type = "text"
IsImage(m)  == m.type = "image"
IsButton(m) == m.type = "interactive"

\* webhookService.js:44-47
IsStartKeyword(m) == IsText(m) /\ trim(toLowerCase(m.body)) = StartKeyword

----------------------------------------------------------------------------
(* messageTemplates.js *)

TemplateKeys == {"greeting", "nameReceived", "feedbackReceived", "completed",
                 "needText", "needImage", "sessionExpired", "systemError"}
FunctionTemplates == {"nameReceived", "completed"}

Text(key, arg) == [tpl |-> key, arg |-> arg]

\* getTemplate(key, data): a missing key yields the systemError text; a function
\* template is called with data.name || data.  "throws" marks the TypeError of
\* reading .name of null.
getTemplate(key, data) ==
    IF key \notin TemplateKeys THEN Text("systemError", NULL)
    ELSE IF key \in FunctionTemplates
         THEN IF data = NULL THEN [tpl |-> "throws", arg |-> NULL]
              ELSE Text(key, data)
         ELSE Text(key, NULL)

Throws(text) == text.tpl = "throws"

\* webhookService.js:114-119, 139, 156-161: literal texts of the handlers
NiceToMeetYou(name) == Text("niceToMeetYou+buttons", name)
PleaseClick         == Text("pleaseClickOrReply", NULL)
PleaseChoose        == Text("pleaseChoose+buttons", NULL)

----------------------------------------------------------------------------
(* prismaService.js: the two tables *)

Field(d, f) == IF f \in DOMAIN d THEN d[f] ELSE NULL

\* x || null on a string-or-null value
OrNull(x) == IF x = NULL \/ x = EMPTY THEN NULL ELSE x

\* { ...a, ...b }
Spread(a, b) ==
    [f \in DOMAIN a \cup DOMAIN b |-> IF f \in DOMAIN b THEN b[f] ELSE a[f]]

\* the columns both branches of the upsert write (prismaService.js:121-138)
SessionColumns(data) ==
    [ exists          |-> TRUE,
      step            |-> data.step,
      name            |-> OrNull(Field(data, "name")),
      feedback        |-> OrNull(Field(data, "feedback")),
      whatsappImageId |-> OrNull(Field(data, "whatsappImageId")),
      profileImageUrl |-> OrNull(Field(data, "profileImageUrl")),
      isCompleted     |-> IF "isCompleted" \in DOMAIN data
                          THEN data.isCompleted ELSE FALSE ]

\* an upsert whose update branch leaves a column alone when the data has no
\* value for it
saveConversationSession_merge(row, data, t) ==
    IF row = NoRow
    THEN Spread(SessionColumns(data), [createdAt |-> t, lastActivity |-> t])
    ELSE [ f \in DOMAIN row |->
             IF f = "lastActivity" THEN t
             ELSE IF f = "createdAt" THEN row.createdAt
             ELSE IF f \in {"name", "feedback", "whatsappImageId", "profileImageUrl"}
                     /\ SessionColumns(data)[f] = NULL
                  THEN row[f]
             ELSE SessionColumns(data)[f] ]

\* an upsert whose update branch leaves lastActivity as it is stored
saveConversationSession_stale(row, data, t) ==
    IF row = NoRow
    THEN Spread(SessionColumns(data), [createdAt |-> t, lastActivity |-> t])
    ELSE Spread(SessionColumns(data),
                [createdAt |-> row.createdAt, lastActivity |-> row.lastActivity])

\* saveConversationSession: upsert by userPhone.  The update branch refreshes
\* lastActivity and keeps createdAt; the create branch takes both column defaults.
saveConversationSession(row, data, t) ==
    IF row = NoRow
    THEN Spread(SessionColumns(data), [createdAt |-> t, lastActivity |-> t])
    ELSE Spread(SessionColumns(data),
                [createdAt |-> row.createdAt, lastActivity |-> t])

\* deleteConversationSession: a missing row (P2025) is not an error
deleteConversationSession(tbl, u) == [tbl EXCEPT ![u] = NoRow]

\* a sweep that takes every uncompleted session, idle or not
Reapable_all(row, h, t) ==
    /\ row # NoRow
    /\ ~row.isCompleted

\* cleanupExpiredSessions(hoursOld): deleteMany where lastActivity < cutoff
\* and isCompleted = false
Reapable(row, h, t) ==
    /\ row # NoRow
    /\ row.lastActivity < t - h
    /\ ~row.isCompleted

cleanupExpiredSessions(tbl, h, t) ==
    [u \in DOMAIN tbl |-> IF Reapable(tbl[u], h, t) THEN NoRow ELSE tbl[u]]

\* sessionDuration || null
DurationOrNull(d) == IF d = 0 THEN NULL ELSE <<"hours", d>>

\* Feedback.name and Feedback.feedback are required columns
\* (DEPLOYMENT_GUIDE.md, model Feedback): create rejects a null.
FeedbackCreateThrows(data) == data.name = NULL \/ data.feedback = NULL

\* saveFeedback: the created row; conv, given are history fields
saveFeedback(data, ep, given) ==
    [ userPhone       |-> data.userPhone,
      name            |-> data.name,
      feedback        |-> data.feedback,
      profileImageUrl |-> OrNull(Field(data, "profileImageUrl")),
      whatsappImageId |-> OrNull(Field(data, "whatsappImageId")),
      sessionDuration |-> DurationOrNull(data.sessionDuration),
      conv            |-> ep,
      given           |-> given ]

----------------------------------------------------------------------------
(* conversationManager.js *)

\* createSession: the sessionData it saves
NewSessionData ==
    [ step |-> 1, name |-> NULL, feedback |-> NULL,
      profileImageUrl |-> NULL, isCompleted |-> FALSE ]

\* an expiry test that takes a session idle for exactly the timeout as expired
isSessionExpired_inclusive(session, t) == t - session.lastActivity >= sessionTimeout

\* isSessionExpired
isSessionExpired(session, t) == t - session.lastActivity > sessionTimeout

\* an advanceStep without the cap
NextStep_uncapped(session) == session.step + 1

\* advanceStep: nextStep
NextStep(session) == Min2(session.step + 1, MaxStep)

\* completeSession: feedbackData
FeedbackData(u, session, t) ==
    [ userPhone       |-> u,
      name            |-> session.name,
      feedback        |-> session.feedback,
      profileImageUrl |-> session.profileImageUrl,
      sessionDuration |-> t - session.createdAt ]

\* resetSession: the updates it applies
ResetUpdates ==
    [ step |-> 1, name |-> NULL, feedback |-> NULL, profileImageUrl |-> NULL ]

----------------------------------------------------------------------------
(* Tasks: one per inbound message being handled (handleIncomingMessage) and *)
(* one per detached upload (processImageUploadAsync).                       *)
(*   pc      the awaited call the task performs next                        *)
(*   k       what the callers do when the current manager call returns      *)
(*   session the session handleIncomingMessage passed to the step handler   *)
(*   cur     the session local of the manager method being executed         *)
(*   upd     the updates argument of updateSession                          *)
(*   ret     the value the last manager call returned                       *)
(*   out     the text about to be sent;  sent: texts sent so far            *)
(*   pre, preCount   history: the user's row and the number of feedback     *)
(*           rows when the message was dispatched                           *)
(*   rest    the messages of the webhook payload that follow this one       *)

IdleTask ==
    [ kind |-> "msg", pc |-> "idle", k |-> <<>>, user |-> "u1", msg |-> NoMsg,
      session |-> NoRow, cur |-> NoRow, upd |-> <<>>, ret |-> NoRow,
      out |-> Text("none", NULL), sent |-> <<>>, result |-> "none",
      pre |-> NoRow, preCount |-> 0, rest |-> <<>> ]

Free(tk) == tk.pc \in {"idle", "done"}

\* conversationManager.getSession(userPhone)
CallGet(tk, rest) == [tk EXCEPT !.pc = "gs_get", !.k = rest]

\* handleIncomingMessage up to its first await
StartMessage(u, m, row, n) ==
    LET tk == [IdleTask EXCEPT !.user = u, !.msg = m, !.pre = row, !.preCount = n]
    IN  IF IsStartKeyword(m)
        THEN [tk EXCEPT !.pc = "cs_save", !.k = <<"greet_send">>]
        ELSE CallGet(tk, <<"route">>)

\* A handler or upload returns.  processWebhookPayload (webhookService.js:16-22)
\* awaits the handlers of a payload's messages one after the other: when one
\* returns, the next message is taken; when one throws, the loop is left and
\* the messages that follow (rest) are not handled.  A task that has ended
\* keeps only what it was, what it sent and how it ended.
Done(tk, res) ==
    IF tk.kind = "msg" /\ res = "ok" /\ tk.rest # <<>>
    THEN [ StartMessage(tk.user, Head(tk.rest), sessions[tk.user], Len(feedbacks))
             EXCEPT !.rest = Tail(tk.rest) ]
    ELSE [ IdleTask EXCEPT !.kind = tk.kind, !.pc = "done", !.user = tk.user,
                           !.msg = tk.msg, !.sent = tk.sent, !.result = res,
                           !.rest = tk.rest ]

\* a catch block that apologises to the user for every task
Catch_apology(tk) ==
    [tk EXCEPT !.pc = "send_err", !.k = <<>>,
               !.out = getTemplate("systemError", NULL)]

\* a catch block that only logs, for every task
Catch_silent(tk) == Done(tk, "error")

\* the catch block of handleIncomingMessage (webhookService.js:80-92); an upload
\* only logs (webhookService.js:254-256)
Catch(tk) ==
    IF tk.kind = "pipe" THEN Done(tk, "error")
    ELSE [tk EXCEPT !.pc = "send_err", !.k = <<>>,
                    !.out = getTemplate("systemError", NULL)]

SendThen(tk, text, rest) ==
    IF Throws(text) THEN Catch(tk)
    ELSE [tk EXCEPT !.pc = "send", !.out = text, !.k = rest]

\* conversationManager.updateSession(userPhone, updates)
CallUpdate(tk, updates, rest) ==
    [tk EXCEPT !.pc = "us_get", !.upd = updates, !.k = rest]

\* a choice read without lower-casing and trimming
Choice_raw(m) ==
    IF IsButton(m) THEN m.id
    ELSE IF IsText(m) THEN m.body
    ELSE EMPTY

\* handleYesNoChoice: choice
Choice(m) ==
    IF IsButton(m) THEN toLowerCase(m.id)
    ELSE IF IsText(m) THEN trim(toLowerCase(m.body))
    ELSE EMPTY

\* the switch of handleIncomingMessage and the first part of the step handler
\* it calls, up to that handler's first await
Route(tk) ==
    LET s == tk.ret
        m == tk.msg
        t == [tk EXCEPT !.session = s]
    IN  CASE s.step = 1 ->            \* handleNameCollection
               IF ~IsText(m) THEN SendThen(t, getTemplate("needText", EMPTY), <<>>)
               ELSE CallUpdate(t, [name |-> trim(m.body)], <<"name_adv">>)
          [] s.step = 2 ->            \* handleYesNoChoice
               IF ~IsButton(m) /\ ~IsText(m) THEN SendThen(t, PleaseClick, <<>>)
               ELSE IF Choice(m) \in {<<"y","e","s">>, <<"y">>}
                    THEN CallGet(t, <<"adv", "yes_send">>)
               ELSE IF Choice(m) \in {<<"n","o">>, <<"n">>}
                    THEN CallUpdate(t, [step |-> 4], <<"no_send">>)
               ELSE SendThen(t, PleaseChoose, <<>>)
          [] s.step = 3 ->            \* handleImageCollection
               IF ~IsImage(m) THEN SendThen(t, getTemplate("needImage", EMPTY), <<>>)
               ELSE CallUpdate(t, [whatsappImageId |-> m.id,
                                   profileImageUrl |-> NULL], <<"img_adv">>)
          [] s.step = 4 ->            \* handleFeedbackCollection
               IF ~IsText(m) THEN SendThen(t, getTemplate("needText", EMPTY), <<>>)
               ELSE CallUpdate(t, [feedback |-> trim(m.body)], <<"fb_complete">>)
          [] OTHER ->                 \* default: resetSession
               CallUpdate(t, ResetUpdates, <<"reset_send">>)

\* A manager call or a send has returned (tk.ret holds the value): the caller's
\* synchronous code up to its next await.
Continue(tk) ==
    IF tk.k = <<>> THEN Done(tk, "ok")
    ELSE LET h    == Head(tk.k)
             rest == Tail(tk.k)
         IN CASE h = "route"       -> Route(tk)
              [] h = "adv"         ->      \* advanceStep after getSession
                    CallUpdate(tk, [step |-> NextStep(tk.ret)], rest)
              [] h = "name_adv"    -> CallGet(tk, <<"adv", "name_send">>)
              [] h = "name_send"   -> SendThen(tk, NiceToMeetYou(trim(tk.msg.body)), <<>>)
              [] h = "yes_send"    ->
                    SendThen(tk, getTemplate("profilePictureYes", EMPTY), <<>>)
              [] h = "no_send"     ->
                    SendThen(tk, getTemplate("profilePictureNo", tk.session.name), <<>>)
              [] h = "img_adv"     -> CallGet(tk, <<"adv", "img_send">>)
              [] h = "img_send"    ->
                    SendThen(tk, getTemplate("profilePictureReceived", EMPTY),
                             <<"img_spawn">>)
              [] h = "fb_complete" -> [tk EXCEPT !.pc = "cp_get", !.k = <<"fb_send">>]
              [] h = "fb_send"     ->
                    SendThen(tk, getTemplate("completed", tk.session.name), <<>>)
              [] h = "greet_send"  -> SendThen(tk, getTemplate("greeting", EMPTY), <<>>)
              [] h = "reset_send"  -> SendThen(tk, getTemplate("greeting", EMPTY), <<>>)
              [] h = "uploaded"    -> Done(tk, "uploaded")       \* line 244
              [] h = "upload_failed" -> Done(tk, "upload_failed")
              [] OTHER             -> Done(tk, "ok")

\* the callee's locals and the returned value are dead once the caller has resumed
Resume(tk) ==
    [ Continue([tk EXCEPT !.cur = NoRow, !.upd = <<>>, !.out = Text("none", NULL)])
        EXCEPT !.ret = NoRow ]

\* processImageUploadAsync up to its first await
StartUpload(u, imageId) ==
    [IdleTask EXCEPT !.kind = "pipe", !.pc = "upload", !.user = u,
                     !.msg = ImageMsg(imageId)]

----------------------------------------------------------------------------
(* History of a conversation: the texts and images the user supplied in it *)

NoTexts == [names |-> {}, feedbacks |-> {}, images |-> {}]

\* updateSession's save, seen from the conversation: which input it stores
Supplied(tk, c) ==
    IF tk.kind = "msg" /\ tk.k # <<>> /\ Head(tk.k) = "name_adv"
    THEN [c EXCEPT !.names = @ \cup {tk.upd.name}]
    ELSE IF tk.kind = "msg" /\ tk.k # <<>> /\ Head(tk.k) = "fb_complete"
    THEN [c EXCEPT !.feedbacks = @ \cup {tk.upd.feedback}]
    ELSE IF tk.kind = "msg" /\ tk.k # <<>> /\ Head(tk.k) = "img_adv"
    THEN [c EXCEPT !.images = @ \cup {tk.upd.whatsappImageId}]
    ELSE c

----------------------------------------------------------------------------
(* Initial state: both tables empty, no task running *)

Init ==
    /\ sessions  = [u \in Users |-> NoRow]
    /\ feedbacks = <<>>
    /\ tasks     = [t \in Slots |-> IF t \in PipeSlots
                                    THEN [IdleTask EXCEPT !.kind = "pipe"]
                                    ELSE IdleTask]
    /\ now       = 0
    /\ events    = 0
    /\ failures  = 0
    /\ epoch     = [u \in Users |-> 0]
    /\ conv      = [u \in Users |-> NoTexts]

Running(t) == ~Free(tasks[t])
Quiet      == \A t \in Slots : Free(tasks[t])

\* an image message in flight or an upload in progress occupies an upload slot
UploadsClaimed ==
    Cardinality({t \in Slots : Running(t) /\ IsImage(tasks[t].msg)})

----------------------------------------------------------------------------
(* Inbound message m of user u reaches handleIncomingMessage in slot t *)

Dispatch(t, u, m) ==
    /\ t \in MsgSlots
    /\ Free(tasks[t])
    /\ \A t2 \in MsgSlots : t2 < t => Running(t2)
    /\ IsImage(m) => UploadsClaimed < Cardinality(PipeSlots)
    /\ tasks'  = [tasks EXCEPT ![t] = StartMessage(u, m, sessions[u], Len(feedbacks))]
    /\ events' = events + 1
    /\ UNCHANGED <<sessions, feedbacks, now, failures, epoch, conv>>

\* a processWebhookPayload that starts the handlers of all messages of the
\* payload without awaiting any
DispatchPayload_parallel(t, u, ms) ==
    /\ t \in MsgSlots
    /\ Free(tasks[t])
    /\ ms # <<>>
    /\ tasks'  = [s \in Slots |->
                    IF s \in MsgSlots /\ (s - t + 1) \in 1..Len(ms)
                    THEN StartMessage(u, ms[s - t + 1], sessions[u], Len(feedbacks))
                    ELSE tasks[s]]
    /\ events' = events + Len(ms)
    /\ UNCHANGED <<sessions, feedbacks, now, failures, epoch, conv>>

\* A webhook payload with the messages ms of user u reaches
\* processWebhookPayload in slot t; the handler of its first message starts
DispatchPayload(t, u, ms) ==
    /\ t \in MsgSlots
    /\ Free(tasks[t])
    /\ ms # <<>>
    /\ tasks'  = [tasks EXCEPT ![t] =
                    [ StartMessage(u, Head(ms), sessions[u], Len(feedbacks))
                        EXCEPT !.rest = Tail(ms) ]]
    /\ events' = events + Len(ms)
    /\ UNCHANGED <<sessions, feedbacks, now, failures, epoch, conv>>

----------------------------------------------------------------------------
(* conversationManager.getSession *)

\* line 46-53: the read and the expiry test
GsGet(t) ==
    LET tk  == tasks[t]
        row == sessions[tk.user]
    IN  /\ tk.pc = "gs_get"
        /\ tasks' = [tasks EXCEPT ![t] =
              [tk EXCEPT !.cur = row,
                         !.pc  = IF row = NoRow THEN "cs_save"
                                 ELSE IF isSessionExpired(row, now) THEN "gs_del"
                                 ELSE "gs_touch"]]
        /\ UNCHANGED <<sessions, feedbacks, now, events, failures, epoch, conv>>

\* a getSession that keeps what an expired session collected as a feedback row
GsDel_archive(t) ==
    LET tk == tasks[t]
        u  == tk.user
    IN  /\ tk.pc = "gs_del"
        /\ sessions'  = deleteConversationSession(sessions, u)
        /\ feedbacks' = Append(feedbacks,
                               saveFeedback(FeedbackData(u, tk.cur, now),
                                            epoch[u], conv[u]))
        /\ tasks'     = [tasks EXCEPT ![t] = [tk EXCEPT !.cur = NoRow, !.pc = "cs_save"]]
        /\ UNCHANGED <<now, events, failures, epoch, conv>>

\* a getSession whose delete rejects when the row is missing (P2025 rethrown)
GsDel_strict(t) ==
    LET tk == tasks[t]
    IN  /\ tk.pc = "gs_del"
        /\ sessions' = deleteConversationSession(sessions, tk.user)
        /\ tasks'    = [tasks EXCEPT ![t] =
                           IF sessions[tk.user] = NoRow THEN Catch(tk)
                           ELSE [tk EXCEPT !.cur = NoRow, !.pc = "cs_save"]]
        /\ UNCHANGED <<feedbacks, now, events, failures, epoch, conv>>

\* line 51: the expired row is deleted
GsDel(t) ==
    LET tk == tasks[t]
    IN  /\ tk.pc = "gs_del"
        /\ sessions' = deleteConversationSession(sessions, tk.user)
        /\ tasks'    = [tasks EXCEPT ![t] = [tk EXCEPT !.cur = NoRow, !.pc = "cs_save"]]
        /\ UNCHANGED <<feedbacks, now, events, failures, epoch, conv>>

\* line 60-67: lastActivity is refreshed by saving the session that was read;
\* the session that was read is returned
GsTouch(t) ==
    LET tk == tasks[t]
        u  == tk.user
    IN  /\ tk.pc = "gs_touch"
        /\ sessions' = [sessions EXCEPT ![u] =
                          saveConversationSession(sessions[u], tk.cur, now)]
        /\ tasks'    = [tasks EXCEPT ![t] = Resume([tk EXCEPT !.ret = tk.cur])]
        /\ UNCHANGED <<feedbacks, now, events, failures, epoch, conv>>

\* a createSession whose save is not restricted to the user's row
CsSave_all(t) ==
    LET tk  == tasks[t]
        u   == tk.user
        row == saveConversationSession(sessions[u], NewSessionData, now)
    IN  /\ tk.pc = "cs_save"
        /\ sessions' = [v \in Users |-> row]
        /\ tasks'    = [tasks EXCEPT ![t] = Resume([tk EXCEPT !.ret = row])]
        /\ epoch'    = [epoch EXCEPT ![u] = @ + 1]
        /\ conv'     = [conv EXCEPT ![u] = NoTexts]
        /\ UNCHANGED <<feedbacks, now, events, failures>>

\* createSession (line 24-38), reached from the start keyword, from getSession
\* and from updateSession
CsSave(t) ==
    LET tk  == tasks[t]
        u   == tk.user
        row == saveConversationSession(sessions[u], NewSessionData, now)
    IN  /\ tk.pc = "cs_save"
        /\ sessions' = [sessions EXCEPT ![u] = row]
        /\ tasks'    = [tasks EXCEPT ![t] = Resume([tk EXCEPT !.ret = row])]
        /\ epoch'    = [epoch EXCEPT ![u] = @ + 1]
        /\ conv'     = [conv EXCEPT ![u] = NoTexts]
        /\ UNCHANGED <<feedbacks, now, events, failures>>

----------------------------------------------------------------------------
(* conversationManager.updateSession *)

\* line 77-82: the read; a missing session is replaced by a new one
UsGet(t) ==
    LET tk  == tasks[t]
        row == sessions[tk.user]
    IN  /\ tk.pc = "us_get"
        /\ tasks' = [tasks EXCEPT ![t] =
              [tk EXCEPT !.cur = row,
                         !.pc  = IF row = NoRow THEN "cs_save" ELSE "us_save"]]
        /\ UNCHANGED <<sessions, feedbacks, now, events, failures, epoch, conv>>

\* line 85-94: the session that was read, with the updates, is saved
UsSave(t) ==
    LET tk  == tasks[t]
        u   == tk.user
        row == saveConversationSession(sessions[u], Spread(tk.cur, tk.upd), now)
    IN  /\ tk.pc = "us_save"
        /\ sessions' = [sessions EXCEPT ![u] = row]
        /\ tasks'    = [tasks EXCEPT ![t] = Resume([tk EXCEPT !.ret = row])]
        /\ conv'     = [conv EXCEPT ![u] = Supplied(tk, @)]
        /\ UNCHANGED <<feedbacks, now, events, failures, epoch>>

----------------------------------------------------------------------------
(* conversationManager.completeSession *)

\* line 115-120: the read; a missing session returns null
CpGet(t) ==
    LET tk  == tasks[t]
        row == sessions[tk.user]
    IN  /\ tk.pc = "cp_get"
        /\ tasks' = [tasks EXCEPT ![t] =
              IF row = NoRow THEN Resume([tk EXCEPT !.cur = row, !.ret = NoRow])
              ELSE [tk EXCEPT !.cur = row, !.pc = "cp_feedback"]]
        /\ UNCHANGED <<sessions, feedbacks, now, events, failures, epoch, conv>>

\* a completeSession that goes on to remove the session without having saved
\* the feedback row
CpFeedback_skip(t) ==
    LET tk == tasks[t]
    IN  /\ tk.pc = "cp_feedback"
        /\ tasks' = [tasks EXCEPT ![t] = [tk EXCEPT !.pc = "cp_mark"]]
        /\ UNCHANGED <<sessions, feedbacks, now, events, failures, epoch, conv>>

\* line 122-134: the feedback row is created from the session that was read
CpFeedback(t) ==
    LET tk   == tasks[t]
        u    == tk.user
        data == FeedbackData(u, tk.cur, now)
    IN  /\ tk.pc = "cp_feedback"
        /\ IF FeedbackCreateThrows(data)
           THEN /\ tasks' = [tasks EXCEPT ![t] = Catch(tk)]
                /\ UNCHANGED feedbacks
           ELSE /\ tasks' = [tasks EXCEPT ![t] = [tk EXCEPT !.pc = "cp_mark"]]
                /\ feedbacks' = Append(feedbacks, saveFeedback(data, epoch[u], conv[u]))
        /\ UNCHANGED <<sessions, now, events, failures, epoch, conv>>

\* line 140-143: the session that was read is saved with isCompleted
CpMark(t) ==
    LET tk == tasks[t]
        u  == tk.user
    IN  /\ tk.pc = "cp_mark"
        /\ sessions' = [sessions EXCEPT ![u] =
              saveConversationSession(sessions[u],
                                      Spread(tk.cur, [isCompleted |-> TRUE]), now)]
        /\ tasks'    = [tasks EXCEPT ![t] = [tk EXCEPT !.pc = "cp_del"]]
        /\ UNCHANGED <<feedbacks, now, events, failures, epoch, conv>>

\* line 144-148: the session is deleted and the session that was read returned
CpDel(t) ==
    LET tk == tasks[t]
        u  == tk.user
    IN  /\ tk.pc = "cp_del"
        /\ sessions' = deleteConversationSession(sessions, u)
        /\ tasks'    = [tasks EXCEPT ![t] = Resume([tk EXCEPT !.ret = tk.cur])]
        /\ epoch'    = [epoch EXCEPT ![u] = @ + 1]
        /\ conv'     = [conv EXCEPT ![u] = NoTexts]
        /\ UNCHANGED <<feedbacks, now, events, failures>>

----------------------------------------------------------------------------
(* Outbound sends and the detached upload *)

FreePipe == CHOOSE p \in PipeSlots : Free(tasks[p])

\* a handler of an accepted image that starts the upload first and sends its
\* reply afterwards
Send_after(t) ==
    LET tk == tasks[t]
        s  == [tk EXCEPT !.sent = Append(@, tk.out)]
    IN  /\ tk.pc = "send"
        /\ IF tk.k # <<>> /\ Head(tk.k) = "img_spawn"
           THEN tasks' = [tasks EXCEPT ![t] = [tk EXCEPT !.k = <<>>],
                                       ![FreePipe] = StartUpload(tk.user, tk.msg.id)]
           ELSE tasks' = [tasks EXCEPT ![t] = Resume(s)]
        /\ UNCHANGED <<sessions, feedbacks, now, events, failures, epoch, conv>>

\* sendTextMessage / sendButtonMessage succeeds.  After the reply of
\* handleImageCollection the upload is started and not awaited (line 216).
Send(t) ==
    LET tk == tasks[t]
        s  == [tk EXCEPT !.sent = Append(@, tk.out)]
    IN  /\ tk.pc = "send"
        /\ IF tk.k # <<>> /\ Head(tk.k) = "img_spawn"
           THEN tasks' = [tasks EXCEPT ![t] = Done(s, "ok"),
                                       ![FreePipe] = StartUpload(tk.user, tk.msg.id)]
           ELSE tasks' = [tasks EXCEPT ![t] = Resume(s)]
        /\ UNCHANGED <<sessions, feedbacks, now, events, failures, epoch, conv>>

\* a catch block that puts the session back to what the message found
SendErr_rollback(t) ==
    LET tk == tasks[t]
    IN  /\ tk.pc = "send_err"
        /\ tasks' = [tasks EXCEPT ![t] =
                        Done([tk EXCEPT !.sent = Append(@, tk.out)], "error")]
        /\ sessions' = [sessions EXCEPT ![tk.user] = tk.pre]
        /\ UNCHANGED <<feedbacks, now, events, failures, epoch, conv>>

\* the apology of the catch block is sent; the error is thrown again
SendErr(t) ==
    LET tk == tasks[t]
    IN  /\ tk.pc = "send_err"
        /\ tasks' = [tasks EXCEPT ![t] =
                        Done([tk EXCEPT !.sent = Append(@, tk.out)], "error")]
        /\ UNCHANGED <<sessions, feedbacks, now, events, failures, epoch, conv>>

StoreCalls == {"gs_get", "gs_del", "gs_touch", "cs_save", "us_get", "us_save",
               "cp_get", "cp_feedback", "cp_mark", "cp_del"}

\* An awaited store call or send rejects without effect.  In a handler the
\* catch block takes over; a failed apology is only logged.
Fail(t) ==
    LET tk == tasks[t]
    IN  /\ failures < MaxFailures
        /\ tk.pc \in StoreCalls \cup {"send", "send_err"}
        /\ tasks' = [tasks EXCEPT ![t] =
                        IF tk.pc = "send_err" THEN Done(tk, "error") ELSE Catch(tk)]
        /\ failures' = failures + 1
        /\ UNCHANGED <<sessions, feedbacks, now, events, epoch, conv>>

UploadedUrl(imageId)  == <<"url:", imageId>>
UploadError           == <<"error: ", "upload">>

\* uploadWhatsAppImage returns { success, publicUrl } or { success: false, error };
\* processImageUploadAsync then stores the URL or the error text in the session
Upload(t, ok) ==
    LET tk == tasks[t]
    IN  /\ tk.pc = "upload"
        /\ tasks' = [tasks EXCEPT ![t] =
              CallUpdate(tk, [profileImageUrl |-> IF ok THEN UploadedUrl(tk.msg.id)
                                                  ELSE UploadError],
                         IF ok THEN <<"uploaded">> ELSE <<"upload_failed">>)]
        /\ UNCHANGED <<sessions, feedbacks, now, events, failures, epoch, conv>>

----------------------------------------------------------------------------
(* Time and the hourly sweep *)

\* time passes between the handling of messages
Tick ==
    /\ Quiet
    /\ now + TickHours <= MaxNow
    /\ now' = now + TickHours
    /\ UNCHANGED <<sessions, feedbacks, tasks, events, failures, epoch, conv>>

\* startCleanupTimer -> cleanupExpiredSessions -> prismaService.cleanupExpiredSessions(12)
Sweep ==
    /\ sessions' = cleanupExpiredSessions(sessions, hoursOld, now)
    /\ sessions' # sessions
    /\ UNCHANGED <<feedbacks, tasks, now, events, failures, epoch, conv>>

----------------------------------------------------------------------------
(* One step of a handler or of an upload *)

Handle(t) ==
    \/ GsGet(t) \/ GsTouch(t) \/ CsSave(t)
    \/ UsGet(t) \/ UsSave(t)
    \/ CpGet(t) \/ CpFeedback(t) \/ CpMark(t) \/ CpDel(t)
    \/ Send(t) \/ SendErr(t)

Uploading(t) == Upload(t, TRUE) \/ Upload(t, FALSE)

BtnYes == <<"y","e","s">>
BtnNo  == <<"n","o">>
Image1 == <<"m1">>

----------------------------------------------------------------------------
(* Spec: the messages of one user, two of them handled at a time *)

SpecMsgs == { TextMsg(B_AlPad), TextMsg(B_N), TextMsg(B_StartUp) }

Receive ==
    /\ events < MaxEvents
    /\ \E t \in MsgSlots, m \in SpecMsgs : Dispatch(t, "u1", m)

Next ==
    \/ Receive
    \/ \E t \in MsgSlots : Handle(t)

Spec == Init /\ [][Next]_vars

----------------------------------------------------------------------------
(* SpecUpload: the messages of one user handled one at a time, while the *)
(* detached upload of an accepted image runs beside them; one store call  *)
(* of an upload may be rejected                                           *)

UploadMsgs == { TextMsg(B_Al), TextMsg(B_Good), TextMsg(B_StartUp),
                ButtonMsg(BtnYes), ImageMsg(Image1) }

ReceiveUpload ==
    /\ events < MaxUpload
    /\ \E m \in UploadMsgs : Dispatch(1, "u1", m)

NextUpload ==
    \/ ReceiveUpload
    \/ \E t \in {1} \cup PipeSlots : Handle(t)
    \/ \E t \in PipeSlots : Uploading(t) \/ Fail(t)

SpecUpload == Init /\ [][NextUpload]_vars

----------------------------------------------------------------------------
(* SpecSerial: one user; every handler and every upload runs to its end    *)
(* before the next message is taken; the clock, the sweep and one rejected *)
(* store call or send                                                      *)

SerialMsgs == { TextMsg(B_AlPad), TextMsg(B_Blank), TextMsg(B_Hi), TextMsg(B_N),
                TextMsg(B_Yes), TextMsg(B_StartUp), ButtonMsg(BtnYes),
                ButtonMsg(BtnNo), ImageMsg(Image1), AudioMsg }

ReceiveSerial ==
    /\ events < MaxSerial
    /\ Quiet
    /\ \E m \in SerialMsgs : Dispatch(1, "u1", m)

NextSerial ==
    \/ ReceiveSerial
    \/ \E t \in {1} \cup PipeSlots : Handle(t) \/ GsDel(t) \/ Fail(t)
    \/ \E t \in PipeSlots : Uploading(t)
    \/ Tick
    \/ Sweep

SpecSerial == Init /\ [][NextSerial]_vars

\* the sweep recurs every hour (startCleanupTimer) and time passes
SpecSerialFair == SpecSerial /\ WF_vars(Sweep) /\ WF_vars(Tick)

----------------------------------------------------------------------------
(* SpecTwo: two users, their messages handled concurrently; each user has *)
(* texts of their own                                                    *)

TwoMsgs(u) ==
    IF u = "u1" THEN { TextMsg(B_N), TextMsg(B_Blank), TextMsg(B_StartUp) }
    ELSE { TextMsg(B_Al), TextMsg(B_StartUp) }

ReceiveTwo ==
    /\ events < MaxTwo
    /\ \E t \in MsgSlots, u \in Users : \E m \in TwoMsgs(u) : Dispatch(t, u, m)

NextTwo ==
    \/ ReceiveTwo
    \/ \E t \in MsgSlots : Handle(t)

SpecTwo == Init /\ [][NextTwo]_vars

----------------------------------------------------------------------------
(* SpecPayload: one user; webhook payloads of one or two messages, handled *)
(* one payload at a time; one rejected store call or send                  *)

PayloadMsgs == { TextMsg(B_N), TextMsg(B_Blank), TextMsg(B_StartUp) }

Payloads == UNION { [1..n -> PayloadMsgs] : n \in 1..MaxBatch }

ReceivePayload ==
    /\ Quiet
    /\ \E ms \in Payloads : /\ events + Len(ms) <= MaxPayload
                             /\ DispatchPayload(1, "u1", ms)

NextPayload ==
    \/ ReceivePayload
    \/ Handle(1)
    \/ Fail(1)

SpecPayload == Init /\ [][NextPayload]_vars

----------------------------------------------------------------------------
(* SpecSweep: two users, their messages handled one at a time, the clock,  *)
(* and the sweep, which may run at any moment of a handler                 *)

SweepMsgs == { TextMsg(B_N), TextMsg(B_Blank), TextMsg(B_StartUp) }

ReceiveSweep ==
    /\ events < MaxSweep
    /\ Quiet
    /\ \E u \in Users, m \in SweepMsgs : Dispatch(1, u, m)

NextSweep ==
    \/ ReceiveSweep
    \/ Handle(1)
    \/ GsDel(1)
    \/ Tick
    \/ Sweep

SpecSweep == Init /\ [][NextSweep]_vars

----------------------------------------------------------------------------
(* SpecFlow: the four messages of POST /test-feedback-flow                *)
(* (whatsappService.js:267-277: start message, name, feedback, image) of  *)
(* one user, each handled to its end before the next; one rejected store  *)
(* call or send                                                           *)

FlowStarts    == { TextMsg(B_Hi), TextMsg(B_StartUp) }
FlowNames     == { TextMsg(B_Al), TextMsg(B_N) }
FlowFeedbacks == { TextMsg(B_Good), TextMsg(B_N) }
FlowImages    == { ImageMsg(Image1) }

FlowStep(n) ==
    CASE n = 0 -> FlowStarts
      [] n = 1 -> FlowNames
      [] n = 2 -> FlowFeedbacks
      [] OTHER -> FlowImages

ReceiveFlow ==
    /\ events < 4
    /\ Quiet
    /\ \E m \in FlowStep(events) : Dispatch(1, "u1", m)

NextFlow ==
    \/ ReceiveFlow
    \/ Handle(1)
    \/ Fail(1)

SpecFlow == Init /\ [][NextFlow]_vars

----------------------------------------------------------------------------
(* SpecCorrupt: the messages of one user, each handled to its end before  *)
(* the next, over a store in which the step column of a session can be    *)
(* changed from outside to a value the switch of handleIncomingMessage    *)
(* does not know (its default branch); one rejected store call or send    *)

UnknownSteps == { 0, MaxStep + 1 }

Corrupt ==
    /\ Quiet
    /\ \E u \in Users, v \in UnknownSteps :
          /\ sessions[u] # NoRow
          /\ sessions[u].step \in 1..MaxStep
          /\ sessions' = [sessions EXCEPT ![u].step = v]
    /\ UNCHANGED <<feedbacks, tasks, now, events, failures, epoch, conv>>

CorruptMsgs == { TextMsg(B_Al), ButtonMsg(BtnYes), ImageMsg(Image1), AudioMsg }

ReceiveCorrupt ==
    /\ events < MaxCorrupt
    /\ Quiet
    /\ \E m \in CorruptMsgs : Dispatch(1, "u1", m)

NextCorrupt ==
    \/ ReceiveCorrupt
    \/ \E t \in {1} \cup PipeSlots : Handle(t) \/ Fail(t)
    \/ \E t \in PipeSlots : Uploading(t)
    \/ Corrupt

SpecCorrupt == Init /\ [][NextCorrupt]_vars

----------------------------------------------------------------------------
(* Properties *)

Acts(t)    == tasks'[t] # tasks[t]
HasRow(u)  == sessions[u] # NoRow

\* the edges of the step table: name -> consent, consent -> media,
\* consent -> feedback, media -> feedback
Edge(a, b) == <<a, b>> \in {<<1, 2>>, <<2, 3>>, <<2, 4>>, <<3, 4>>}

\* the step taken is the createSession of a start-keyword message of user u
KeywordReset(u) ==
    \E t \in MsgSlots : /\ Acts(t)
                        /\ tasks[t].pc = "cs_save"
                        /\ tasks[t].user = u
                        /\ IsStartKeyword(tasks[t].msg)

\* C1: in every execution the step of a user's stored session changes only
\* along an edge of the step table (so it never decreases), except that the
\* handling of a start-keyword message returns it to step 1.
C1_StepOnlyAlongEdges ==
    [][\A u \in Users :
          (sessions[u] # NoRow /\ sessions'[u] # NoRow
             /\ sessions'[u].step # sessions[u].step)
          => \/ Edge(sessions[u].step, sessions'[u].step)
             \/ (KeywordReset(u) /\ sessions'[u].step = 1)]_vars

\* the feedback rows of user u
RecordsOf(u) == {i \in 1..Len(feedbacks) : feedbacks[i].userPhone = u}

\* the text that ends a conversation
IsCompletedText(x) == x.tpl = "completed"

\* C2: each completed conversation has exactly one feedback row: no two rows
\* of a user belong to the same conversation, and a handler that has told the
\* user the feedback was received has left a row of that user behind.
C2_OneRecordPerConversation ==
    /\ \A i, j \in 1..Len(feedbacks) :
          (i # j /\ feedbacks[i].userPhone = feedbacks[j].userPhone)
          => feedbacks[i].conv # feedbacks[j].conv
    /\ \A t \in MsgSlots :
          (tasks[t].pc = "done"
             /\ \E n \in 1..Len(tasks[t].sent) : IsCompletedText(tasks[t].sent[n]))
          => RecordsOf(tasks[t].user) # {}

\* C3: every feedback row holds a name and a feedback text, each one a text
\* the user supplied at the name step and at the feedback step of the
\* conversation the row was created in.
C3_RecordHoldsSuppliedTexts ==
    \A i \in 1..Len(feedbacks) :
        /\ feedbacks[i].name # NULL
        /\ feedbacks[i].feedback # NULL
        /\ feedbacks[i].name \in feedbacks[i].given.names
        /\ feedbacks[i].feedback \in feedbacks[i].given.feedbacks

\* C4: no update is lost.  Once every handler has returned, what the handlers
\* of the current conversation stored is still there, as after handling the
\* same messages one after the other: an accepted name is the session's name
\* and the session is past the name step, an accepted feedback text is the
\* session's feedback.
C4_NoLostUpdate ==
    Quiet =>
       \A u \in Users :
          /\ conv[u].names # {}
                => /\ HasRow(u)
                   /\ sessions[u].name \in {OrNull(n) : n \in conv[u].names}
                   /\ sessions[u].step >= 2
          /\ conv[u].feedbacks # {}
                => /\ HasRow(u)
                   /\ sessions[u].feedback \in {OrNull(f) : f \in conv[u].feedbacks}

\* what a conversation has stored in a row beyond its creation
Progress(row) ==
    /\ row # NoRow
    /\ \/ row.step # 1
       \/ row.name # NULL
       \/ row.feedback # NULL
       \/ row.whatsappImageId # NULL
       \/ row.profileImageUrl # NULL

\* C5: reading or creating the session is one operation per user: the
\* createSession and the delete that getSession decided on when it read the
\* row never overwrite or delete the progress another message has stored since
\* (a create finds no row or a row without progress, a delete no row or an
\* expired one).
C5_ReadOrCreateAtomic ==
    [][\A t \in MsgSlots :
          (Acts(t) /\ ~IsStartKeyword(tasks[t].msg))
          => /\ tasks[t].pc = "cs_save" => ~Progress(sessions[tasks[t].user])
             /\ tasks[t].pc = "gs_del"
                   => \/ sessions[tasks[t].user] = NoRow
                      \/ isSessionExpired(sessions[tasks[t].user], now)]_vars

\* the kinds a step does not accept
WrongKind(m, step) ==
    \/ step \in {1, 4} /\ ~IsText(m)
    \/ step = 2 /\ ~IsButton(m) /\ ~IsText(m)
    \/ step = 3 /\ ~IsImage(m)

\* the guidance of a step: its required kind
Guidance(step) ==
    IF step = 3 THEN getTemplate("needImage", EMPTY)
    ELSE IF step = 2 THEN PleaseClick
    ELSE getTemplate("needText", EMPTY)

\* the step and the collected fields of a session row
Collected(row) ==
    [ step            |-> row.step,
      name            |-> row.name,
      feedback        |-> row.feedback,
      whatsappImageId |-> row.whatsappImageId,
      profileImageUrl |-> row.profileImageUrl ]

\* the step of slot t belongs to the handling of an input of the wrong kind:
\* getSession's save of the session it read, or the reply
WrongKindStep(t) ==
    /\ Acts(t)
    /\ failures' = failures
    /\ tasks[t].kind = "msg"
    /\ \/ tasks[t].pc = "gs_touch" /\ WrongKind(tasks[t].msg, tasks[t].cur.step)
       \/ /\ tasks[t].pc = "send"
          /\ tasks[t].session # NoRow
          /\ WrongKind(tasks[t].msg, tasks[t].session.step)

\* C6: handling an input of the wrong kind for the session's step (non-text at
\* step 1 or 4, non-image at step 3, neither button nor text at step 2) leaves
\* the step and every collected field of the stored session as they are,
\* creates no feedback row, and sends exactly the guidance of that step.
C6_WrongKindLeavesSession ==
    [][\A t \in MsgSlots :
          WrongKindStep(t)
          => /\ HasRow(tasks[t].user)
                   => /\ sessions'[tasks[t].user] # NoRow
                      /\ Collected(sessions'[tasks[t].user])
                            = Collected(sessions[tasks[t].user])
             /\ feedbacks' = feedbacks
             /\ tasks[t].pc = "send"
                   => tasks'[t].sent = <<Guidance(tasks[t].session.step)>>]_vars

\* the step and the collected fields of a session nothing was collected in
EmptyCollected ==
    [ step |-> 1, name |-> NULL, feedback |-> NULL,
      whatsappImageId |-> NULL, profileImageUrl |-> NULL ]

\* slot t takes a step of the handling of a start-keyword message, none of
\* whose calls is rejected
KeywordStep(t) ==
    /\ Acts(t)
    /\ failures' = failures
    /\ tasks[t].kind = "msg"
    /\ tasks[t].pc \notin {"idle", "done", "send_err"}
    /\ IsStartKeyword(tasks[t].msg)

\* C7: a text whose trimmed, lower-cased body is the start keyword, received in
\* any state (no session, an expired one, any step), is handled by saving a
\* session at step 1 with name, feedback, image id and image URL empty and
\* isCompleted false, then sending the greeting and nothing else; no step of
\* its handling creates a feedback row.
C7_KeywordResets ==
    [][\A t \in MsgSlots :
          KeywordStep(t)
          => /\ feedbacks' = feedbacks
             /\ tasks[t].pc \in {"cs_save", "send"}
             /\ tasks[t].pc = "cs_save"
                   => /\ sessions'[tasks[t].user] # NoRow
                      /\ Collected(sessions'[tasks[t].user]) = EmptyCollected
                      /\ ~sessions'[tasks[t].user].isCompleted
                      /\ tasks'[t].pc = "send"
             /\ tasks[t].pc = "send"
                   => /\ tasks'[t].pc = "done"
                      /\ tasks'[t].result = "ok"
                      /\ tasks'[t].sent = <<getTemplate("greeting", EMPTY)>>]_vars

\* a start keyword received at step 4 with a name stored has reset the session
\* and its greeting is about to be sent
C7_Witness ==
    \E t \in MsgSlots :
        /\ tasks[t].pc = "send"
        /\ IsStartKeyword(tasks[t].msg)
        /\ tasks[t].pre # NoRow
        /\ tasks[t].pre.step = 4
        /\ tasks[t].pre.name # NULL
        /\ tasks[t].out = getTemplate("greeting", EMPTY)
        /\ Collected(sessions[tasks[t].user]) = EmptyCollected

\* slot t returns from handleIncomingMessage without an error
Returns(t) ==
    /\ tasks[t].kind = "msg"
    /\ Running(t)
    /\ tasks'[t].pc = "done"
    /\ tasks'[t].result = "ok"

\* what handling message m at time t leaves behind when the user has no
\* session: the row createSession saves, with the name of a text stored and
\* the step advanced
AbsentSession(m, t) ==
    LET new == saveConversationSession(NoRow, NewSessionData, t)
    IN  IF IsStartKeyword(m) \/ ~IsText(m) THEN new
        ELSE [new EXCEPT !.name = OrNull(trim(m.body)), !.step = 2]

\* and what it answers
AbsentReply(m) ==
    IF IsStartKeyword(m) THEN getTemplate("greeting", EMPTY)
    ELSE IF ~IsText(m) THEN getTemplate("needText", EMPTY)
    ELSE NiceToMeetYou(trim(m.body))

\* the row the message found was last active more than sessionTimeout ago
FoundExpired(t) ==
    tasks[t].pre # NoRow /\ isSessionExpired(tasks[t].pre, now)

\* C8: a session last active more than 12 hours ago is the same as no session.
\* With messages handled one at a time, a message that finds no session or an
\* expired one leaves the same session row (a new one: step 1 or the name step
\* done, nothing else collected, created now), the same feedback rows and the
\* same reply as it does when handled with no session.
C8_ExpiredIsAbsent ==
    [][\A t \in MsgSlots :
          (Returns(t) /\ (tasks[t].pre = NoRow \/ FoundExpired(t)))
          => /\ sessions'[tasks[t].user] = AbsentSession(tasks[t].msg, now)
             /\ tasks'[t].sent = <<AbsentReply(tasks[t].msg)>>
             /\ Len(feedbacks') = tasks[t].preCount]_vars

\* the step taken belongs to a handler of user u
StepOf(u) == \E t \in Slots : Acts(t) /\ Running(t) /\ tasks[t].user = u

\* what the texts user u sends in SpecTwo can put into a name or feedback column
OwnTexts ==
    [u \in Users |->
       {NULL} \cup {OrNull(trim(m.body)) :
                       m \in {x \in TwoMsgs(u) : ~IsStartKeyword(x)}}]

\* the step creates no feedback row of user u and changes none
RecordsKept(u) ==
    /\ Len(feedbacks') >= Len(feedbacks)
    /\ \A i \in 1..Len(feedbacks') :
          IF i <= Len(feedbacks) THEN feedbacks'[i] = feedbacks[i]
          ELSE feedbacks'[i].userPhone # u

\* C9: sessions are isolated by user.  With two users whose messages are
\* handled concurrently, a step that does not belong to a handler of user v
\* leaves v's session and v's feedback rows as they are, and v's session and
\* feedback rows only ever hold texts that v sent.
C9_UsersIsolated ==
    [][\A v \in Users :
          /\ ~StepOf(v) => (sessions'[v] = sessions[v] /\ RecordsKept(v))
          /\ sessions'[v] # NoRow
                => /\ sessions'[v].name \in OwnTexts[v]
                   /\ sessions'[v].feedback \in OwnTexts[v]
          /\ \A i \in 1..Len(feedbacks') :
                feedbacks'[i].userPhone = v
                => /\ feedbacks'[i].name \in OwnTexts[v]
                   /\ feedbacks'[i].feedback \in OwnTexts[v]]_vars

\* both users have a name stored, each their own, while a message of u2 is
\* being handled
C9_Witness ==
    /\ HasRow("u1") /\ sessions["u1"].name = B_N
    /\ HasRow("u2") /\ sessions["u2"].name = B_Al
    /\ \E t \in MsgSlots : Running(t) /\ tasks[t].user = "u2"

\* the step is the delete that ends completeSession for user u
Completes(u) ==
    \E t \in MsgSlots : /\ Acts(t)
                        /\ failures' = failures
                        /\ tasks[t].pc = "cp_del"
                        /\ tasks[t].user = u

\* the step gives user u a session where there was none
Appears(u) == sessions[u] = NoRow /\ sessions'[u] # NoRow

\* C10: when a conversation completes the user's session is gone, and a
\* session of that user exists again only once a handler of a message of
\* theirs creates it, at step 1 with nothing collected.
C10_CompletedThenFresh ==
    [][\A u \in Users :
          /\ Completes(u) => sessions'[u] = NoRow
          /\ Appears(u)
                => /\ \E t \in MsgSlots : Acts(t) /\ tasks[t].user = u
                   /\ Collected(sessions'[u]) = EmptyCollected]_vars

\* the detached upload of image img of user u has finished with the given result
PipelineEnded(u, img, res) ==
    \E p \in PipeSlots : /\ tasks[p].pc = "done"
                         /\ tasks[p].result = res
                         /\ tasks[p].user = u
                         /\ tasks[p].msg.id = img

\* C11: the feedback row of a completed conversation in which an image was
\* accepted carries the URL the upload produced for that image once the upload
\* has finished successfully, whether it finished before or after the
\* conversation was completed.
C11_RecordGetsUri ==
    \A i \in 1..Len(feedbacks) :
       \A img \in feedbacks[i].given.images :
          PipelineEnded(feedbacks[i].userPhone, img, "uploaded")
          => feedbacks[i].profileImageUrl = UploadedUrl(img)

\* C12: when the upload of an accepted image fails (resolving the URL, the
\* download or the upload), the feedback row of the conversation that supplied
\* the image ends up with the error text in place of the image URL, not with
\* an empty value.
C12_RecordGetsErrorMarker ==
    \A i \in 1..Len(feedbacks) :
       \A img \in feedbacks[i].given.images :
          PipelineEnded(feedbacks[i].userPhone, img, "upload_failed")
          => feedbacks[i].profileImageUrl = UploadError

\* C13: a write of the detached upload changes nothing but the image URL of
\* the session it belongs to: a step of an upload creates no session, deletes
\* none, and leaves step, name and feedback of the session as they are.
C13_PipelineWritesOnlyUri ==
    [][\A p \in PipeSlots :
          (Acts(p) /\ Running(p))
          => /\ sessions[tasks[p].user] = NoRow <=> sessions'[tasks[p].user] = NoRow
             /\ sessions[tasks[p].user] # NoRow
                   => /\ sessions'[tasks[p].user].step = sessions[tasks[p].user].step
                      /\ sessions'[tasks[p].user].name = sessions[tasks[p].user].name
                      /\ sessions'[tasks[p].user].feedback
                            = sessions[tasks[p].user].feedback
             /\ feedbacks' = feedbacks]_vars

\* the step starts the detached upload in slot p
PipelineStarts(p) == tasks[p].pc # "upload" /\ tasks'[p].pc = "upload"

\* a handler that is running can take its next step whatever the uploads do
NeverWaits == \A t \in MsgSlots : Running(t) => ENABLED Handle(t)

\* C14: when an image is accepted at step 3 the reply is sent before the
\* upload starts: an upload starts only in the step in which the handler of
\* that image has had its reply sent and returns.  No handler waits for an
\* upload: a running handler can always take its next step.
C14_ReplyBeforePipeline ==
    [][/\ \A p \in PipeSlots :
             PipelineStarts(p)
             => \E t \in MsgSlots :
                   /\ tasks[t].pc = "send"
                   /\ tasks[t].session.step = 3
                   /\ tasks[t].msg = tasks'[p].msg
                   /\ tasks[t].user = tasks'[p].user
                   /\ tasks'[t].pc = "done"
                   /\ tasks'[t].result = "ok"
                   /\ tasks'[t].sent
                         = <<getTemplate("profilePictureReceived", EMPTY)>>
       /\ NeverWaits']_vars

\* the feedback text of the user has been handled to its end, the conversation
\* completed, while the upload of the accepted image has not finished
C14_Witness ==
    \E t \in MsgSlots, p \in PipeSlots :
        /\ tasks[p].pc = "upload"
        /\ tasks[t].pc = "done"
        /\ tasks[t].result = "ok"
        /\ tasks[t].user = tasks[p].user
        /\ IsText(tasks[t].msg)
        /\ RecordsOf(tasks[t].user) # {}
        /\ ~HasRow(tasks[t].user)

\* C15: the detached upload never sends a message to the user, whether it
\* succeeds or fails, and nothing that happens in it, a rejected store call
\* included, reaches a handler: a step of an upload leaves every handler as
\* it is.
C15_PipelineSilent ==
    [][/\ \A p \in PipeSlots :
             /\ tasks'[p].sent = <<>>
             /\ tasks'[p].pc \notin {"send", "send_err"}
             /\ (Acts(p) /\ Running(p))
                   => \A t \in MsgSlots : tasks'[t] = tasks[t]]_vars

\* a store call of the upload was rejected while a message is being handled
C15_Witness ==
    \E p \in PipeSlots, t \in MsgSlots :
        /\ tasks[p].pc = "done"
        /\ tasks[p].result = "error"
        /\ Running(t)
        /\ tasks[t].user = tasks[p].user

\* slot t returns from the handling of an image that it accepted at step 3
\* and for which it moved the session to step 4
ReturnsAfterAccept(t) ==
    /\ tasks[t].kind = "msg"
    /\ Running(t)
    /\ tasks'[t].pc = "done"
    /\ IsImage(tasks[t].msg)
    /\ tasks[t].session # NoRow
    /\ tasks[t].session.step = 3
    /\ HasRow(tasks[t].user)
    /\ sessions[tasks[t].user].step = 4
    /\ sessions[tasks[t].user].whatsappImageId = tasks[t].msg.id

\* C16: the upload is started exactly once for each move out of step 3 caused
\* by an accepted image: an upload starts only in a step of the handler of an
\* image received at step 3, and a handler that accepted an image and moved
\* the session to step 4 has started the upload of that image when it returns.
C16_PipelineOncePerImage ==
    [][/\ \A p \in PipeSlots :
             PipelineStarts(p)
             => \E t \in MsgSlots : /\ Acts(t)
                                    /\ IsImage(tasks[t].msg)
                                    /\ tasks[t].session.step = 3
       /\ \A t \in MsgSlots :
             ReturnsAfterAccept(t)
             => \E p \in PipeSlots : /\ PipelineStarts(p)
                                     /\ tasks'[p].msg = tasks[t].msg]_vars

\* a store call of the handler in slot t is rejected in this step
StoreFailure(t) ==
    /\ tasks[t].kind = "msg"
    /\ tasks[t].pc \in StoreCalls
    /\ failures' = failures + 1
    /\ Acts(t)

\* step and collected fields of a row; no row counts as a session in which
\* nothing was collected
CollectedOrNone(row) == IF row = NoRow THEN EmptyCollected ELSE Collected(row)

\* C17: when a store call fails while a message is handled, the user is sent
\* the apology and nothing of what the handler did before is committed: the
\* user's session (step and collected fields) and the feedback rows are as
\* they were when the message arrived.
C17_StoreFailureCommitsNothing ==
    [][\A t \in MsgSlots :
          StoreFailure(t)
          => /\ tasks'[t].pc = "send_err"
             /\ tasks'[t].out = getTemplate("systemError", NULL)
             /\ CollectedOrNone(sessions'[tasks[t].user])
                   = CollectedOrNone(tasks[t].pre)
             /\ Len(feedbacks') = tasks[t].preCount]_vars

\* C18: an exception raised while a message is handled is caught at that
\* message's boundary and turned into the apology; it goes no further and
\* does not keep any other message from being handled, the later messages of
\* the same webhook payload included: when the handling of a payload has
\* ended, none of its messages is left unhandled.
C18_ErrorStaysInsideEvent ==
    \A t \in MsgSlots :
        tasks[t].pc = "done" => tasks[t].rest = <<>>

\* the send of the reply of the handler in slot t is rejected in this step
SendFailure(t) ==
    /\ tasks[t].kind = "msg"
    /\ tasks[t].pc = "send"
    /\ failures' = failures + 1
    /\ Acts(t)

\* C19: a failed send rolls nothing back.  From the step in which the send of
\* a handler's reply is rejected to the handler's return (the catch block with
\* its apology), the sessions and the feedback rows stay as the handler left
\* them before the send.
C19_SendFailureKeepsState ==
    [][\A t \in MsgSlots :
          (SendFailure(t) \/ (Acts(t) /\ tasks[t].pc = "send_err"))
          => /\ sessions' = sessions
             /\ feedbacks' = feedbacks]_vars

\* the reply to a name failed to be sent: the catch block is running and the
\* session holds the name and the advanced step
C19_Witness ==
    \E t \in MsgSlots :
        /\ tasks[t].pc = "send_err"
        /\ tasks[t].pre # NoRow
        /\ tasks[t].pre.step = 1
        /\ tasks[t].pre.name = NULL
        /\ HasRow(tasks[t].user)
        /\ sessions[tasks[t].user].step = 2
        /\ sessions[tasks[t].user].name = trim(tasks[t].msg.body)

\* the step is the create of completeSession in the handler of a feedback text
\* received at step 4, and it adds one row of that user
CompletionCreates ==
    \E t \in MsgSlots :
        /\ Acts(t)
        /\ tasks[t].pc = "cp_feedback"
        /\ IsText(tasks[t].msg)
        /\ ~IsStartKeyword(tasks[t].msg)
        /\ tasks[t].session.step = 4
        /\ Len(feedbacks') = Len(feedbacks) + 1
        /\ SubSeq(feedbacks', 1, Len(feedbacks)) = feedbacks
        /\ feedbacks'[Len(feedbacks')].userPhone = tasks[t].user

\* C20: a feedback row is created only by completing a conversation.  The
\* sweep, the delete of an expired session in getSession, a keyword reset and
\* an input of the wrong kind create none: every step that changes the
\* feedback table is the create of completeSession for a text at step 4.
C20_RecordsOnlyByCompletion ==
    [][feedbacks' # feedbacks => CompletionCreates]_vars

\* a session with a name stored was abandoned, has expired and is gone (swept
\* or deleted by getSession); the next message finds no feedback row
C20_Witness ==
    \E t \in MsgSlots :
        /\ tasks[t].pc = "cs_save"
        /\ tasks[t].pre # NoRow
        /\ tasks[t].pre.name # NULL
        /\ isSessionExpired(tasks[t].pre, now)
        /\ ~HasRow(tasks[t].user)
        /\ feedbacks = <<>>

\* the step is a sweep (no task moves) and it removes the session of user u
SweepDeletes(u) ==
    /\ tasks' = tasks
    /\ sessions[u] # NoRow
    /\ sessions'[u] = NoRow

\* C21: a sweep deletes a session only if, at the moment of the delete, the
\* session is uncompleted and was last active more than 12 hours ago; every
\* other session, one that a message has just revived or refreshed included,
\* is left as it is.
C21_SweepOnlyIdle ==
    [][\A u \in Users :
          /\ SweepDeletes(u)
                => /\ ~sessions[u].isCompleted
                   /\ now - sessions[u].lastActivity > sessionTimeout
          /\ (tasks' = tasks /\ now' = now)
                => (sessions'[u] = sessions[u] \/ SweepDeletes(u))]_vars

\* the idle session of u2 has been swept (it is gone without a feedback row
\* and without a handler having run to delete it) while the session of u1,
\* created earlier and revived or refreshed at the present hour, is kept
C21_Witness ==
    /\ Quiet
    /\ ~HasRow("u2") /\ epoch["u2"] >= 1 /\ RecordsOf("u2") = {}
    /\ \A t \in MsgSlots : tasks[t].pc = "done" => tasks[t].user = "u1"
    /\ HasRow("u1")
    /\ sessions["u1"].createdAt < now
    /\ sessions["u1"].lastActivity = now

\* C22: every session that receives no further message is eventually removed:
\* once it has been idle for more than 12 hours and no message is being
\* handled or still to come, a later sweep deletes it.
C22_IdleSessionRemoved ==
    \A u \in Users :
        (/\ HasRow(u)
         /\ isSessionExpired(sessions[u], now)
         /\ Quiet
         /\ events = MaxSerial)
        ~> ~HasRow(u)

\* the words of a positive and of a negative choice
YesWords == {<<"y","e","s">>, <<"y">>}
NoWords  == {<<"n","o">>, <<"n">>}

\* what message m says as a choice: a button's id or a text's body, case and
\* surrounding blanks ignored
Said(m) ==
    IF IsButton(m) THEN toLowerCase(m.id)
    ELSE IF IsText(m) THEN trim(toLowerCase(m.body))
    ELSE EMPTY

\* slot t returns from a message that found the live session at step 2
ReturnsFromConsent(t) ==
    /\ Returns(t)
    /\ tasks[t].pre # NoRow
    /\ ~isSessionExpired(tasks[t].pre, now)
    /\ tasks[t].pre.step = 2
    /\ ~IsStartKeyword(tasks[t].msg)

C24_HiStartsFlow ==
    [][\A t \in MsgSlots :
          (Returns(t) /\ tasks[t].msg = TextMsg(B_Hi))
          => /\ tasks'[t].sent = <<getTemplate("greeting", EMPTY)>>
             /\ sessions'[tasks[t].user] # NoRow
             /\ Collected(sessions'[tasks[t].user]) = EmptyCollected]_vars

\* C25: the messages start message, name text, feedback text, image of one
\* user, handled in that order with no call rejected, complete the
\* conversation: one feedback row holds the name text as name and the feedback
\* text as feedback, and the session is removed.
C25_TestFlowCompletes ==
    (events = 4 /\ Quiet /\ failures = 0)
    => /\ Len(feedbacks) = 1
       /\ feedbacks[1].name \in {trim(m.body) : m \in FlowNames}
       /\ feedbacks[1].feedback \in {trim(m.body) : m \in FlowFeedbacks}
       /\ ~HasRow("u1")

\* the handler of slot t returns normally from a message other than the start
\* keyword whose session it found at a step the switch does not know
ReturnsFromUnknownStep(t) ==
    /\ Returns(t)
    /\ ~IsStartKeyword(tasks[t].msg)
    /\ tasks[t].session # NoRow
    /\ tasks[t].session.step \notin 1..MaxStep

\* C26: when a message other than the start keyword is handled for a session
\* whose stored step is not a known one, the session is left at step 1 with
\* name, feedback, media reference and media URL cleared, and the greeting is
\* the reply.
C26_UnknownStepResets ==
    [][\A t \in MsgSlots :
          ReturnsFromUnknownStep(t)
          => /\ HasRow(tasks[t].user)'
             /\ Collected(sessions'[tasks[t].user]) = EmptyCollected
             /\ tasks'[t].sent = <<getTemplate("greeting", EMPTY)>>]_vars

\* the handler of slot t returns normally from a message that found a session
\* which had not expired
ReturnsFromLive(t) ==
    /\ Returns(t)
    /\ tasks[t].pre # NoRow
    /\ ~isSessionExpired(tasks[t].pre, now)

DeletesMissing(t) ==
    /\ tasks[t].pc = "gs_del"
    /\ ~HasRow(tasks[t].user)
    /\ Acts(t)

Recorded(fbs, u, c) ==
    \E i \in 1..Len(fbs) :
        /\ fbs[i].userPhone = u
        /\ fbs[i].name = c.name
        /\ fbs[i].feedback = c.feedback
        /\ fbs[i].profileImageUrl = c.profileImageUrl

\* they are in the user's row of tbl
Stored(tbl, u, c) ==
    /\ tbl[u] # NoRow
    /\ tbl[u].name = c.name
    /\ tbl[u].feedback = c.feedback
    /\ tbl[u].profileImageUrl = c.profileImageUrl

InCompletion(t) == tasks[t].pc \in {"cp_feedback", "cp_mark", "cp_del"}

C30_NoCompletedSessionRemains ==
    Quiet => \A u \in Users : HasRow(u) => ~sessions[u].isCompleted

\* the handler of a start-keyword message of user u has returned normally and
\* no later message of u has arrived
KeywordHandled(u) ==
    \E t \in MsgSlots :
        /\ tasks[t].pc = "done"
        /\ tasks[t].result = "ok"
        /\ tasks[t].user = u
        /\ IsStartKeyword(tasks[t].msg)

\* C31: after a start-keyword reset nothing collected before it is in the
\* user's session: from the return of the keyword's handler until the user's
\* next message the session is at step 1 with no name, feedback, image id or
\* image URL, also when an upload started before the reset finishes after it.
C31_NothingSurvivesReset ==
    \A u \in Users :
        (KeywordHandled(u) /\ HasRow(u))
        => Collected(sessions[u]) = EmptyCollected

\* the step of slot t is the save of updateSession that sets a new step
\* (advanceStep, or the negative choice) for an input the handler validated
AdvancingSave(t) ==
    /\ Acts(t)
    /\ tasks[t].pc = "us_save"
    /\ tasks'[t].pc # "send_err"
    /\ "step" \in DOMAIN tasks[t].upd
    /\ tasks[t].session # NoRow
    /\ tasks[t].session.step \in 1..MaxStep

\* C32: the save that advances the session for an accepted input leaves the
\* stored step one edge of the step table away from the step the handler
\* validated the input against, also when two messages of the user are handled
\* concurrently.
C32_OneEdgePerInput ==
    [][\A t \in MsgSlots :
          AdvancingSave(t)
          => /\ sessions'[tasks[t].user] # NoRow
             /\ Edge(tasks[t].session.step, sessions'[tasks[t].user].step)]_vars

\* slot t is in the default branch of the switch of handleIncomingMessage
InDefaultBranch(t) ==
    /\ Running(t)
    /\ tasks[t].k # <<>>
    /\ Head(tasks[t].k) = "reset_send"

\* C33: every stored session has a step from 1 to 4, and no handler takes the
\* invalid-step branch of the switch, with two messages of the user handled
\* concurrently.
C33_StepInRange ==
    /\ \A u \in Users : HasRow(u) => sessions[u].step \in 1..MaxStep
    /\ \A t \in MsgSlots : ~InDefaultBranch(t)

\* advanceStep read the session at step 4 and is about to save it: the cap
\* keeps the step at 4
C33_Witness ==
    \E t \in MsgSlots :
        /\ tasks[t].pc = "us_save"
        /\ tasks[t].cur # NoRow
        /\ tasks[t].cur.step = MaxStep
        /\ tasks[t].upd = [step |-> MaxStep]
        /\ HasRow(tasks[t].user)
        /\ sessions[tasks[t].user].step = MaxStep

\* slot t, having stored an image received at step 3 and advanced the session,
\* takes the step of the reply's send: the send succeeds or is rejected
ReplyOfAcceptedImage(t) ==
    /\ Acts(t)
    /\ tasks[t].pc = "send"
    /\ tasks[t].k = <<"img_spawn">>
    /\ IsImage(tasks[t].msg)

\* C34: every accepted image starts the upload of that image, also when the
\* send of the reply that follows the acceptance fails: the step that ends the
\* reply's send, successfully or not, starts the upload.
C34_AcceptedImageStartsPipeline ==
    [][\A t \in MsgSlots :
          ReplyOfAcceptedImage(t)
          => \E p \in PipeSlots : /\ PipelineStarts(p)
                                  /\ tasks'[p].user = tasks[t].user
                                  /\ tasks'[p].msg = tasks[t].msg]_vars

\* the generic apology text
IsApology(x) == x.tpl = "systemError"

\* C35: the apology text is sent only when the handling of the message
\* failed: a handler that returns normally (name accepted, choice made, image
\* accepted, conversation completed included) has sent no apology text.
C35_ApologyOnlyOnFailure ==
    [][\A t \in MsgSlots :
          Returns(t)
          => \A i \in 1..Len(tasks'[t].sent) : ~IsApology(tasks'[t].sent[i])]_vars

\* the handler in slot t ends in this step, normally or not
Ends(t) ==
    /\ tasks[t].kind = "msg"
    /\ Running(t)
    /\ tasks'[t].pc = "done"

\* C36: every message that reaches handleIncomingMessage leads to a send to its
\* sender being attempted: a handler ends only in the step of a send (the
\* reply's or the apology's, successful or rejected), and a handler that
\* returns normally has sent exactly one message.
C36_OneReplyPerMessage ==
    [][\A t \in MsgSlots :
          Ends(t)
          => /\ tasks[t].pc \in {"send", "send_err"}
             /\ tasks'[t].result = "ok" => Len(tasks'[t].sent) = 1]_vars

\* a store call of the handler was rejected and the apology is the one message
\* the user was sent
C36_Witness ==
    \E t \in MsgSlots :
        /\ tasks[t].pc = "done"
        /\ tasks[t].result = "error"
        /\ failures = 1
        /\ tasks[t].sent = <<getTemplate("systemError", NULL)>>

\* message m is a text or a button reply that says neither yes nor no
InvalidChoice(m) ==
    /\ IsText(m) \/ IsButton(m)
    /\ ~IsStartKeyword(m)
    /\ Said(m) \notin YesWords \cup NoWords

\* the step of slot t belongs to the handling of an invalid choice at step 2:
\* getSession's save of the session it read, or the reply
InvalidChoiceStep(t) ==
    /\ Acts(t)
    /\ failures' = failures
    /\ tasks[t].kind = "msg"
    /\ InvalidChoice(tasks[t].msg)
    /\ \/ tasks[t].pc = "gs_touch" /\ tasks[t].cur.step = 2
       \/ tasks[t].pc = "send" /\ tasks[t].session # NoRow /\ tasks[t].session.step = 2

\* C37: at step 2, handling a text or button reply that says none of 'yes',
\* 'y', 'no', 'n' leaves the step and the collected fields of the stored
\* session as they are and sends the choice prompt with the two buttons.
C37_InvalidChoiceLeavesSession ==
    [][\A t \in MsgSlots :
          InvalidChoiceStep(t)
          => /\ HasRow(tasks[t].user)
                   => /\ sessions'[tasks[t].user] # NoRow
                      /\ Collected(sessions'[tasks[t].user])
                            = Collected(sessions[tasks[t].user])
             /\ tasks[t].pc = "send" => tasks'[t].sent = <<PleaseChoose>>]_vars

\* C38: the messages of one webhook payload are handled in their order, one
\* at a time: no two handlers of a user run at the same time, and the next
\* message of a payload is taken only in the step in which the reply's send of
\* the message before it succeeds; it is the first of those still waiting.
C38_PayloadInOrder ==
    /\ [](\A t1, t2 \in MsgSlots :
             (t1 # t2 /\ Running(t1) /\ Running(t2))
             => tasks[t1].user # tasks[t2].user)
    /\ [][\A t \in MsgSlots :
             (Running(t) /\ tasks'[t].rest # tasks[t].rest)
             => /\ tasks[t].pc = "send"
                /\ tasks[t].sent = <<>>
                /\ tasks'[t].msg = Head(tasks[t].rest)
                /\ tasks'[t].rest = Tail(tasks[t].rest)
                /\ tasks'[t].pc \in {"gs_get", "cs_save"}]_vars

\* the first message of a payload of two, the name 'N', has been stored and
\* the session advanced; its reply is being sent while the second message waits
C38_Witness ==
    \E t \in MsgSlots :
        /\ tasks[t].pc = "send"
        /\ tasks[t].msg = TextMsg(B_N)
        /\ Len(tasks[t].rest) = 1
        /\ HasRow(tasks[t].user)
        /\ sessions[tasks[t].user].step = 2
        /\ sessions[tasks[t].user].name = trim(B_N)

\* the idle condition of the sweep at time t: what Reapable asks of a session
\* that is not marked completed
SweepIdle(row, t) == Reapable([row EXCEPT !.isCompleted = FALSE], hoursOld, t)

\* C39: getSession and the sweep agree on expiry.  A stored session is expired
\* for isSessionExpired exactly when it meets the sweep's idle condition, a
\* session idle for exactly 12 hours is live for both, the sweep removes only
\* sessions getSession would take as expired, and getSession deletes only
\* sessions that meet the sweep's idle condition.
C39_ReadAndSweepAgree ==
    /\ [](\A u \in Users :
             HasRow(u)
             => /\ isSessionExpired(sessions[u], now) <=> SweepIdle(sessions[u], now)
                /\ now - sessions[u].lastActivity = sessionTimeout
                      => /\ ~isSessionExpired(sessions[u], now)
                         /\ ~SweepIdle(sessions[u], now))
    /\ [][/\ \A u \in Users :
               SweepDeletes(u) => isSessionExpired(sessions[u], now)
          /\ \A t \in MsgSlots :
               (Acts(t) /\ tasks[t].pc = "gs_get" /\ HasRow(tasks[t].user))
               => (tasks'[t].pc = "gs_del"
                     <=> SweepIdle(sessions[tasks[t].user], now))]_vars

\* at hour 24 the session of u2, idle since hour 0, has been swept, and
\* getSession has read the session of u1, idle for exactly 12 hours, and goes
\* on with it as a live session
C39_Witness ==
    \E t \in MsgSlots :
        /\ tasks[t].pc = "gs_touch"
        /\ tasks[t].user = "u1"
        /\ tasks[t].cur # NoRow
        /\ now - tasks[t].cur.lastActivity = sessionTimeout
        /\ sessions["u1"] = tasks[t].cur
        /\ ~HasRow("u2") /\ epoch["u2"] >= 1 /\ RecordsOf("u2") = {}

=============================================================================
